---- MODULE Spec2Model ----
(***************************************************************************)
(* A model of src/src/App.jsx, the JSON tree visualizer: the tree builder, *)
(* the two layout passes, the graph mapper, the path parser and resolver,  *)
(* and the handlers of the App component that drive them.                  *)
(*                                                                         *)
(* JavaScript strings are modelled as sequences of one-character strings,  *)
(* so that slicing, trimming and concatenation are what the code does.     *)
(* A JavaScript value is a record [js, keys, vals, n, s]: js is the kind   *)
(* of value, keys/vals the own enumerable properties of an object in       *)
(* Object.keys order (vals alone for an array), n the number or boolean,   *)
(* s the characters of a string.                                           *)
(*                                                                         *)
(* JSON.parse is the platform's: a document text is modelled by whether it *)
(* parses and by the value it parses to.  The viewport of the rendering    *)
(* widget (fitView, setCenter), the clipboard and the theme are outside    *)
(* the model.                                                              *)
(***************************************************************************)
EXTENDS Integers, Sequences, FiniteSets, TLC

VARIABLES
    \* the App component's state (useState, useRef)
    jsonText, error, graph, raw, query, status, highlightId, debounceRef,
    \* the layout pipeline run on one value, a call at a time
    v, pc, tree, flow,
    \* the path query engine run on one query, a call at a time
    q, qpc, tokens, data, res

appVars == <<jsonText, error, graph, raw, query, status, highlightId, debounceRef>>
treeVars == <<v, pc, tree, flow>>
queryVars == <<q, qpc, tokens, data, res>>
vars == <<appVars, treeVars, queryVars>>

----------------------------------------------------------------------------
(* Bounds of the model *)

\* the largest number of object keys plus array elements in a generated value
MaxDocSize == 4

\* the longest generated query string
MaxQueryLen == 4

----------------------------------------------------------------------------
(* JavaScript values *)

JNull == [js |-> "null", keys |-> <<>>, vals |-> <<>>, n |-> 0, s |-> <<>>]

JNum(k) == [js |-> "number", keys |-> <<>>, vals |-> <<>>, n |-> k, s |-> <<>>]

JStr(cs) == [js |-> "string", keys |-> <<>>, vals |-> <<>>, n |-> 0, s |-> cs]

JBool(b) == [js |-> "boolean", keys |-> <<>>, vals |-> <<>>, n |-> IF b THEN 1 ELSE 0, s |-> <<>>]

JObj(ks, vs) == [js |-> "object", keys |-> ks, vals |-> vs, n |-> 0, s |-> <<>>]

JArr(vs) == [js |-> "array", keys |-> <<>>, vals |-> vs, n |-> 0, s |-> <<>>]

\* a method found on the prototype chain ("toString" in {})
JFun == [js |-> "function", keys |-> <<>>, vals |-> <<>>, n |-> 0, s |-> <<>>]

\* typeof x
TypeOf(x) == IF x.js \in {"object", "array", "null"} THEN "object" ELSE x.js

\* !x
Falsy(x) ==
    \/ x.js = "null"
    \/ x.js = "number" /\ x.n = 0
    \/ x.js = "string" /\ x.s = <<>>
    \/ x.js = "boolean" /\ x.n = 0

Last(sq) == sq[Len(sq)]

Front(sq) == SubSeq(sq, 1, Len(sq) - 1)

Max(a, b) == IF a >= b THEN a ELSE b

Digit(d) == <<"0", "1", "2", "3", "4", "5", "6", "7", "8", "9">>[d + 1]

RECURSIVE NatToStr(_)
\* String(i), `${i}` of a natural number
NatToStr(i) == IF i < 10 THEN <<Digit(i)>> ELSE NatToStr(i \div 10) \o <<Digit(i % 10)>>

\* String(i), `${i}` of an integer
ToStr(i) == IF i < 0 THEN <<"-">> \o NatToStr(0 - i) ELSE NatToStr(i)

----------------------------------------------------------------------------
(* The generated documents: every value with at most MaxDocSize keys and   *)
(* elements over these keys and primitives.                                *)

Keys == {<<"a">>, <<"a", ".", "a">>}

Prims == {JNum(0), JStr(<<"s">>)}

KeyLists(k) == {ks \in [1..k -> Keys] : \A i, j \in 1..k : i # j => ks[i] # ks[j]}

\* S itself; taking its cardinality makes TLC sort it, which keeps unions of large sets fast
Sorted(S) == LET t == S IN IF Cardinality(t) >= 0 THEN t ELSE {}

Cup(A, B) == Sorted(Sorted(A) \cup Sorted(B))

RECURSIVE KidLists(_, _, _)
RECURSIVE KidListsFrom(_, _, _, _)
\* the sequences of k values whose sizes add up to m and whose first value has size j or more
KidListsFrom(bySize, k, m, j) ==
    IF j > m THEN {}
    ELSE Cup({<<d>> \o rest : d \in bySize[j + 1], rest \in KidLists(bySize, k - 1, m - j)},
             KidListsFrom(bySize, k, m, j + 1))

\* the sequences of k values whose sizes add up to m; bySize[j + 1] holds the values of size j
KidLists(bySize, k, m) ==
    IF k = 0 THEN (IF m = 0 THEN {<<>>} ELSE {})
    ELSE KidListsFrom(bySize, k, m, 0)

RECURSIVE DocsWithKids(_, _, _)
\* the objects and arrays of size n with k or more children
DocsWithKids(bySize, n, k) ==
    IF k > n THEN {}
    ELSE LET kids == KidLists(bySize, k, n - k)
         IN  Cup(Cup({JObj(ks, vs) : ks \in KeyLists(k), vs \in kids}, {JArr(vs) : vs \in kids}),
                 DocsWithKids(bySize, n, k + 1))

\* the values of size n > 0, from those of the smaller sizes
DocsOfSize(bySize, n) == DocsWithKids(bySize, n, 1)

RECURSIVE DocsBySize(_, _)
\* the table of the values of each size up to MaxDocSize, filled from size n on
DocsBySize(bySize, n) ==
    IF n > MaxDocSize THEN bySize
    ELSE DocsBySize(Append(bySize, DocsOfSize(bySize, n)), n + 1)

RECURSIVE CupAll(_)
CupAll(sets) == IF sets = <<>> THEN {} ELSE Cup(Head(sets), CupAll(Tail(sets)))

Docs == CupAll(DocsBySize(<<Prims \cup {JObj(<<>>, <<>>), JArr(<<>>)}>>, 1))

----------------------------------------------------------------------------
(* Constants of the program *)

NODE_COLORS == [object |-> "#6C63FF", array |-> "#27AE60", primitive |-> "#F39C12", highlight |-> "#FF3B30"]

H_GAP == 200

V_GAP == 110

\* the left margin the node list is re-anchored to
LEFT_MARGIN == 40

\* no highlight (null), or the highlighted id
NullId == <<>>

SomeId(id) == <<id>>

----------------------------------------------------------------------------
(* Type classifier and tree builder *)

detectType(x) ==
    IF x.js = "array" THEN "array"
    ELSE IF x.js # "null" /\ TypeOf(x) = "object" THEN "object"
    ELSE "primitive"

RECURSIVE expand(_, _, _)
\* the node of one stack entry [node, value, path] with its subtree expanded
expand(path, key, value) ==
    LET type == detectType(value) IN
    [id |-> path, key |-> key, type |-> type, value |-> value,
     children |->
        IF type = "object"
        THEN [i \in 1..Len(value.keys) |->
                expand(path \o <<".">> \o value.keys[i], value.keys[i], value.vals[i])]
        ELSE IF type = "array"
        THEN [i \in 1..Len(value.vals) |->
                expand(path \o <<"[">> \o ToStr(i - 1) \o <<"]">>, ToStr(i - 1), value.vals[i])]
        ELSE <<>>]

\* buildTree without the single-key collapse
buildTreeNoCollapse(d, rootKey) == expand(<<"$">>, rootKey, d)

buildTree(d, rootKey) ==
    IF detectType(d) = "object" /\ Len(d.keys) = 1
    THEN expand(<<"$", ".">> \o d.keys[1], d.keys[1], d.vals[1])
    ELSE expand(<<"$">>, rootKey, d)

ROOT_KEY == <<"r", "o", "o", "t">>

----------------------------------------------------------------------------
(* Width calculator *)

RECURSIVE sumWidths(_)
sumWidths(cs) == IF cs = <<>> THEN 0 ELSE Head(cs).width + sumWidths(Tail(cs))

RECURSIVE computeWidths(_)
RECURSIVE computeWidthsChildCount(_)
\* computeWidths with a node's width taken to be the number of its children
computeWidthsChildCount(node) ==
    LET cs == [i \in 1..Len(node.children) |-> computeWidths(node.children[i])] IN
    [id |-> node.id, key |-> node.key, type |-> node.type, value |-> node.value,
     children |-> cs,
     width |-> IF Len(node.children) = 0 THEN 1 ELSE Len(node.children)]

computeWidths(node) ==
    LET cs == [i \in 1..Len(node.children) |-> computeWidths(node.children[i])] IN
    [id |-> node.id, key |-> node.key, type |-> node.type, value |-> node.value,
     children |-> cs,
     width |-> IF Len(node.children) = 0 THEN 1 ELSE Max(1, sumWidths(cs))]

----------------------------------------------------------------------------
(* Layout engine *)

RECURSIVE layoutTree(_, _, _, _, _)
RECURSIVE layoutChildren(_, _, _, _, _)
RECURSIVE layoutChildrenFixedStep(_, _, _, _, _)
\* the children loop with the cursor advanced by one gap whatever the child's width
layoutChildrenFixedStep(cs, cursor, depth, xGap, yGap) ==
    IF cs = <<>> THEN <<>>
    ELSE <<layoutTree(Head(cs), cursor, depth + 1, xGap, yGap)>>
         \o layoutChildren(Tail(cs), cursor + xGap, depth, xGap, yGap)

\* node.children.forEach: each child laid out at the cursor, which then advances
layoutChildren(cs, cursor, depth, xGap, yGap) ==
    IF cs = <<>> THEN <<>>
    ELSE <<layoutTree(Head(cs), cursor, depth + 1, xGap, yGap)>>
         \o layoutChildren(Tail(cs), cursor + Head(cs).width * xGap, depth, xGap, yGap)

layoutTree(node, xStart, depth, xGap, yGap) ==
    \* node.width * xGap is even for the gaps used, so / 2 is exact
    LET center == xStart + (node.width * xGap) \div 2 IN
    [id |-> node.id, key |-> node.key, type |-> node.type, value |-> node.value,
     width |-> node.width,
     position |-> [x |-> center, y |-> depth * yGap],
     children |-> layoutChildren(node.children, xStart, depth, xGap, yGap)]

----------------------------------------------------------------------------
(* Graph mapper *)

labelFor(n) ==
    IF n.type = "primitive"
    THEN LET val == IF n.value.js = "null" THEN <<"n", "u", "l", "l">>
                    ELSE IF TypeOf(n.value) = "string" THEN <<"\"">> \o n.value.s \o <<"\"">>
                    ELSE IF n.value.js = "boolean"
                         THEN (IF n.value.n = 1 THEN <<"t", "r", "u", "e">> ELSE <<"f", "a", "l", "s", "e">>)
                    ELSE ToStr(n.value.n)
         IN  IF n.key # <<>> THEN n.key \o <<":", " ">> \o val ELSE val
    ELSE IF n.type = "object"
    THEN (IF n.key # <<>> THEN n.key ELSE <<"o", "b", "j", "e", "c", "t">>)
    ELSE IF n.type = "array"
    THEN (IF n.key # <<>> THEN n.key ELSE <<"a", "r", "r", "a", "y">>)
    ELSE n.key

colorFor(n, colors, hl) == IF SomeId(n.id) = hl THEN colors.highlight ELSE colors[n.type]

\* the record pushed on nodes; the style's constant fields are left out
flowNode(n, colors, hl) ==
    [id |-> n.id,
     position |-> n.position,
     data |-> [label |-> labelFor(n), tooltip |-> n.id \o <<" ", "=", ">", " ">> \o labelFor(n)],
     style |-> [background |-> colorFor(n, colors, hl),
                border |-> IF SomeId(n.id) = hl THEN "2px solid #b00000" ELSE "2px solid rgba(0,0,0,0.18)"]]

flowEdge(n, c) == [id |-> n.id \o <<"-", ">">> \o c.id, source |-> n.id, target |-> c.id]

RECURSIVE visitNodes(_, _, _)
\* the node list of the while loop run on this stack
visitNodes(stack, colors, hl) ==
    IF stack = <<>> THEN <<>>
    ELSE LET n == Last(stack) IN
         <<flowNode(n, colors, hl)>> \o visitNodes(Front(stack) \o n.children, colors, hl)

RECURSIVE visitEdges(_)
\* the edge list of the while loop run on this stack
visitEdges(stack) ==
    IF stack = <<>> THEN <<>>
    ELSE LET n == Last(stack) IN
         [i \in 1..Len(n.children) |-> flowEdge(n, n.children[i])]
         \o visitEdges(Front(stack) \o n.children)

mapToFlow(node, colors, hl) ==
    [nodes |-> visitNodes(<<node>>, colors, hl), edges |-> visitEdges(<<node>>)]

----------------------------------------------------------------------------
(* Path query engine: the parser *)

WhiteSpace == {" ", "\t", "\n", "\r"}

RECURSIVE TrimStart(_)
TrimStart(cs) == IF cs # <<>> /\ Head(cs) \in WhiteSpace THEN TrimStart(Tail(cs)) ELSE cs

RECURSIVE TrimEnd(_)
TrimEnd(cs) == IF cs # <<>> /\ Last(cs) \in WhiteSpace THEN TrimEnd(Front(cs)) ELSE cs

\* cs.trim()
Trim(cs) == TrimEnd(TrimStart(cs))

\* cs with a leading c sliced off: if (s.startsWith(c)) s = s.slice(1)
StripLeading(cs, c) == IF cs # <<>> /\ Head(cs) = c THEN Tail(cs) ELSE cs

RECURSIVE IndexOf(_, _, _)
\* s.indexOf(c, i), both positions counted from 1; 0 when there is none
IndexOf(cs, c, i) ==
    IF i > Len(cs) THEN 0 ELSE IF cs[i] = c THEN i ELSE IndexOf(cs, c, i + 1)

IsDigit(c) == \E d \in 0..9 : Digit(d) = c

DigitVal(c) == CHOOSE d \in 0..9 : Digit(d) = c

AllDigits(cs) == \A i \in 1..Len(cs) : IsDigit(cs[i])

RECURSIVE DigitsToNat(_)
DigitsToNat(cs) == IF cs = <<>> THEN 0 ELSE DigitsToNat(Front(cs)) * 10 + DigitVal(Last(cs))

NotInteger == [int |-> FALSE, n |-> 0]

\* an unsigned decimal literal: digits, digits with a fraction, or a fraction alone
UnsignedToInt(cs) ==
    LET dot == IndexOf(cs, ".", 1)
        whole == IF dot = 0 THEN cs ELSE SubSeq(cs, 1, dot - 1)
        frac == IF dot = 0 THEN <<>> ELSE SubSeq(cs, dot + 1, Len(cs))
    IN  IF ~AllDigits(whole) \/ ~AllDigits(frac) \/ (whole = <<>> /\ frac = <<>>) THEN NotInteger
        ELSE IF \E i \in 1..Len(frac) : frac[i] # "0" THEN NotInteger
        ELSE [int |-> TRUE, n |-> DigitsToNat(whole)]

\* Number(inside) and Number.isInteger of it: whether the text converts to an
\* integer, and to which.  The text is trimmed, the empty text is 0, a sign
\* may lead a decimal literal.  Exponents, hex, octal and binary literals and
\* Infinity need letters that the model's queries never put between brackets.
NumberToInt(inside) ==
    LET t == Trim(inside) IN
    IF t = <<>> THEN [int |-> TRUE, n |-> 0]
    ELSE IF Head(t) = "-"
    THEN LET u == UnsignedToInt(Tail(t)) IN [int |-> u.int, n |-> 0 - u.n]
    ELSE IF Head(t) = "+" THEN UnsignedToInt(Tail(t))
    ELSE UnsignedToInt(t)

\* a token: a number (typeof t === 'number') or a string
NumTok(k) == [num |-> TRUE, n |-> k, s |-> <<>>]

StrTok(cs) == [num |-> FALSE, n |-> 0, s |-> cs]

\* if (buf) { tokens.push(buf); buf = '' }
Flush(toks, buf) == IF buf # <<>> THEN Append(toks, StrTok(buf)) ELSE toks

RECURSIVE parseLoop(_, _, _, _)
\* the for loop from position i (counted from 1) on
parseLoop(cs, i, buf, toks) ==
    IF i > Len(cs) THEN Flush(toks, buf)
    ELSE IF cs[i] = "." THEN parseLoop(cs, i + 1, <<>>, Flush(toks, buf))
    ELSE IF cs[i] = "["
    THEN LET j == IndexOf(cs, "]", i)
             idx == NumberToInt(SubSeq(cs, i + 1, j - 1))
         IN  IF j = 0 THEN <<>>
             ELSE IF ~idx.int THEN <<>>
             ELSE parseLoop(cs, j + 1, <<>>, Append(Flush(toks, buf), NumTok(idx.n)))
    ELSE parseLoop(cs, i + 1, Append(buf, cs[i]), toks)

\* the query without its surrounding whitespace, leading $ and leading .
Stripped(qs) == StripLeading(StripLeading(Trim(qs), "$"), ".")

parsePath(qs) ==
    IF qs = <<>> THEN <<>>
    ELSE parseLoop(Stripped(qs), 1, <<>>, <<>>)

----------------------------------------------------------------------------
(* Path query engine: the resolver *)

S_length == <<"l", "e", "n", "g", "t", "h">>

S_toString == <<"t", "o", "S", "t", "r", "i", "n", "g">>

\* the names every object inherits, of which the model's queries spell this one
ObjectProto == {S_toString}

\* the array index that this property name spells, or -1
IndexNamed(cur, name) ==
    IF \E i \in 0..(Len(cur.vals) - 1) : ToStr(i) = name
    THEN CHOOSE i \in 0..(Len(cur.vals) - 1) : ToStr(i) = name
    ELSE 0 - 1

KeyNamed(cur, name) ==
    IF \E i \in 1..Len(cur.keys) : cur.keys[i] = name
    THEN CHOOSE i \in 1..Len(cur.keys) : cur.keys[i] = name
    ELSE 0

\* name in cur, for an object or an array: own and inherited properties
HasProperty(cur, name) ==
    \/ cur.js = "object" /\ KeyNamed(cur, name) # 0
    \/ cur.js = "array" /\ (IndexNamed(cur, name) >= 0 \/ name = S_length)
    \/ name \in ObjectProto

\* cur[name], for a property that cur has
GetProperty(cur, name) ==
    IF cur.js = "object" /\ KeyNamed(cur, name) # 0 THEN cur.vals[KeyNamed(cur, name)]
    ELSE IF cur.js = "array" /\ IndexNamed(cur, name) >= 0 THEN cur.vals[IndexNamed(cur, name) + 1]
    ELSE IF cur.js = "array" /\ name = S_length THEN JNum(Len(cur.vals))
    ELSE JFun

\* the result null
NotFound == [found |-> FALSE, value |-> JNull, path |-> <<>>]

RECURSIVE findLoop(_, _, _)
\* the for loop over the tokens left, from this value and path
findLoop(cur, path, toks) ==
    IF toks = <<>> THEN [found |-> TRUE, value |-> cur, path |-> path]
    ELSE LET t == Head(toks) IN
         IF t.num
         THEN IF cur.js # "array" \/ t.n < 0 \/ t.n >= Len(cur.vals) THEN NotFound
              ELSE findLoop(cur.vals[t.n + 1], path \o <<"[">> \o ToStr(t.n) \o <<"]">>, Tail(toks))
         ELSE IF cur.js = "null" \/ TypeOf(cur) # "object" \/ ~HasProperty(cur, t.s) THEN NotFound
              ELSE findLoop(GetProperty(cur, t.s), path \o <<".">> \o t.s, Tail(toks))

findByPath(d, toks) == findLoop(d, <<"$">>, toks)

----------------------------------------------------------------------------
(* The pipeline on one value *)

NoTree == <<>>

NoFlow == [nodes |-> <<>>, edges |-> <<>>]

TreeIdle == v = JNull /\ pc = "idle" /\ tree = NoTree /\ flow = NoFlow

TreeInit == v \in Docs /\ pc = "input" /\ tree = NoTree /\ flow = NoFlow

Build ==
    /\ pc = "input"
    /\ tree' = buildTree(v, ROOT_KEY)
    /\ pc' = "built"
    /\ UNCHANGED <<v, flow, appVars, queryVars>>

Widths ==
    /\ pc = "built"
    /\ tree' = computeWidths(tree)
    /\ pc' = "widths"
    /\ UNCHANGED <<v, flow, appVars, queryVars>>

Layout ==
    /\ pc = "widths"
    /\ tree' = layoutTree(tree, 0, 0, H_GAP, V_GAP)
    /\ pc' = "laid"
    /\ UNCHANGED <<v, flow, appVars, queryVars>>

Map ==
    /\ pc = "laid"
    /\ flow' = mapToFlow(tree, NODE_COLORS, NullId)
    /\ pc' = "mapped"
    /\ UNCHANGED <<v, tree, appVars, queryVars>>

AppIdle ==
    /\ jsonText = 0 /\ error = 0 /\ graph = 0 /\ raw = 0
    /\ query = 0 /\ status = 0 /\ highlightId = 0 /\ debounceRef = 0

QueryIdle == q = 0 /\ qpc = 0 /\ tokens = 0 /\ data = 0 /\ res = 0

----------------------------------------------------------------------------
(* The query engine on one query *)

QueryChars == {"$", ".", "[", "]", "a", "0", "1", " ", "-"}

RECURSIVE StringsUpTo(_, _)
\* the strings of at most n of these characters
StringsUpTo(chars, n) ==
    IF n = 0 THEN {<<>>} ELSE Cup([1..n -> chars], StringsUpTo(chars, n - 1))

Queries == StringsUpTo(QueryChars, MaxQueryLen) \cup {S_length, S_toString}

\* the documents the generated queries are resolved against
QueryDocs ==
    { JNull, JNum(0), JStr(<<"s">>), JObj(<<>>, <<>>), JArr(<<>>),
      JObj(<< <<"a">> >>, <<JNum(0)>>),
      JObj(<< <<"a">> >>, <<JObj(<< <<"a">> >>, <<JNum(0)>>)>>),
      JObj(<< <<"a">>, <<"a", ".", "a">> >>, <<JArr(<<JNum(0), JNull>>), JStr(<<"s">>)>>),
      JArr(<<JNum(0)>>),
      JArr(<<JStr(<<"s">>), JObj(<< <<"a">> >>, <<JNum(0)>>)>>) }

QueryInit == q \in Queries /\ qpc = "input" /\ tokens = <<>> /\ data = JNull /\ res = NotFound

Parse ==
    /\ qpc = "input"
    /\ tokens' = parsePath(q)
    /\ qpc' = "parsed"
    /\ UNCHANGED <<q, data, res, appVars, treeVars>>

Find ==
    /\ qpc = "parsed"
    /\ \E d \in QueryDocs : data' = d /\ res' = findByPath(d, tokens)
    /\ qpc' = "found"
    /\ UNCHANGED <<q, tokens, appVars, treeVars>>

InitQuery == AppIdle /\ TreeIdle /\ QueryInit

NextQuery == Parse \/ Find

SpecQuery == InitQuery /\ [][NextQuery]_vars

InitTree == AppIdle /\ TreeInit /\ QueryIdle

NextTree == Build \/ Widths \/ Layout \/ Map

SpecTree == InitTree /\ [][NextTree]_vars

----------------------------------------------------------------------------
(* The App component *)

S_user == <<"u", "s", "e", "r">>

S_name == <<"n", "a", "m", "e">>

S_age == <<"a", "g", "e">>

S_address == <<"a", "d", "d", "r", "e", "s", "s">>

S_city == <<"c", "i", "t", "y">>

S_area == <<"a", "r", "e", "a">>

S_native == <<"n", "a", "t", "i", "v", "e">>

DEFAULT_JSON ==
    JObj(<<S_user>>,
         <<JObj(<<S_name, S_age, S_address, S_native>>,
                <<JStr(<<"N", "a", "n", "d", "i", "n", "i">>),
                  JNum(23),
                  JObj(<<S_city, S_area>>, <<JStr(<<"B", "a", "n", "g", "a", "l", "o", "r", "e">>), JStr(<<"H", "S", "R">>)>>),
                  JStr(<<"A", "n", "d", "h", "r", "a">>)>>)>>)

\* a document text: one that JSON.parse accepts, with the value it parses
\* to, the empty text, or a malformed text such as {"a":}
JsonText(d) == [kind |-> "json", data |-> d]

EmptyText == [kind |-> "empty", data |-> JNull]

MalformedText == [kind |-> "malformed", data |-> JNull]

\* JSON.parse(text) does not throw
Parses(text) == text.kind = "json"

\* the documents typed into the editor
AppDocs ==
    { DEFAULT_JSON,
      JNum(0),
      JStr(<<"s">>),
      JObj(<<>>, <<>>),
      JObj(<< <<"a">> >>, <<JNum(0)>>),
      JObj(<< <<"a">>, <<"a", ".", "a">> >>, <<JObj(<< <<"a">> >>, <<JNum(0)>>), JNull>>),
      JArr(<<JNum(0), JObj(<< <<"a">> >>, <<JStr(<<"s">>)>>)>>) }

Texts == {JsonText(d) : d \in AppDocs} \cup {EmptyText, MalformedText}

\* the queries typed into the search box
AppQueries ==
    { <<>>, <<"$">>, <<" ">>, <<"a">>, <<"$", ".", "a">>, <<"a", ".", "a">>, <<"0">>,
      <<"[", "0", "]">>, <<"[", "1", "]", ".", "a">>, <<"[", "]">>, <<"[", "a", "]">>, <<"[">>,
      <<"a", ".", "b">>,
      S_user \o <<".">> \o S_address \o <<".">> \o S_city }

NoStatus == [text |-> "", arg |-> <<>>]

Status(text) == [text |-> text, arg |-> <<>>]

RECURSIVE MinX(_)
\* Math.min(...nodes.map((n) => n.position.x))
MinX(ns) ==
    IF Len(ns) = 1 THEN ns[1].position.x
    ELSE LET m == MinX(Tail(ns)) IN IF ns[1].position.x < m THEN ns[1].position.x ELSE m

\* nodes.forEach((n) => (n.position.x = n.position.x - minX + 40))
Reanchor(g) ==
    LET minX == MinX(g.nodes) IN
    [nodes |-> [i \in 1..Len(g.nodes) |->
                  [g.nodes[i] EXCEPT !.position.x = g.nodes[i].position.x - minX + LEFT_MARGIN]],
     edges |-> g.edges]

\* the graph of a document: buildTree, computeWidths, layoutTree, mapToFlow, re-anchored
Rendered(d, hl) ==
    Reanchor(mapToFlow(layoutTree(computeWidths(buildTree(d, ROOT_KEY)), 0, 0, H_GAP, V_GAP),
                       NODE_COLORS, hl))

\* generate whose catch branch leaves the graph and the raw document as they are
generateKeepsGraph ==
    IF Parses(jsonText)
    THEN [status |-> NoStatus, highlightId |-> NullId, raw |-> jsonText.data,
          graph |-> Rendered(jsonText.data, NullId), error |-> ""]
    ELSE [status |-> NoStatus, highlightId |-> NullId, raw |-> raw,
          graph |-> graph, error |-> "Invalid JSON"]

\* what generate() sets, from the current jsonText
generate ==
    IF Parses(jsonText)
    THEN [status |-> NoStatus, highlightId |-> NullId, raw |-> jsonText.data,
          graph |-> Rendered(jsonText.data, NullId), error |-> ""]
    ELSE [status |-> NoStatus, highlightId |-> NullId, raw |-> JNull,
          graph |-> NoFlow, error |-> "Invalid JSON"]

RunGenerate ==
    /\ status' = generate.status
    /\ highlightId' = generate.highlightId
    /\ raw' = generate.raw
    /\ graph' = generate.graph
    /\ error' = generate.error

\* the state after the first render and its effects: generate() has run on
\* DEFAULT_JSON and the debounce timer is set
AppInit ==
    /\ jsonText = JsonText(DEFAULT_JSON)
    /\ query = <<>>
    /\ status = NoStatus
    /\ highlightId = NullId
    /\ raw = DEFAULT_JSON
    /\ graph = Rendered(DEFAULT_JSON, NullId)
    /\ error = ""
    /\ debounceRef = TRUE

\* the Generate Tree button
Generate == RunGenerate /\ UNCHANGED <<jsonText, query, debounceRef, treeVars, queryVars>>

\* the textarea's onChange: the new text, and the effect that restarts the timer
SetJsonText ==
    \E text \in Texts :
        /\ text # jsonText
        /\ jsonText' = text
        /\ debounceRef' = TRUE
        /\ UNCHANGED <<error, graph, raw, query, status, highlightId, treeVars, queryVars>>

\* the debounce timer's callback
DebounceFire ==
    /\ debounceRef = TRUE
    /\ debounceRef' = FALSE
    /\ IF Parses(jsonText) THEN RunGenerate
       ELSE UNCHANGED <<error, graph, raw, status, highlightId>>
    /\ UNCHANGED <<jsonText, query, treeVars, queryVars>>

\* the search box's onChange
SetQuery ==
    \E qs \in AppQueries :
        /\ qs # query
        /\ query' = qs
        /\ UNCHANGED <<jsonText, error, graph, raw, status, highlightId, debounceRef, treeVars, queryVars>>

\* res of onSearch, once tokens is known to be usable
searchResult(toks) ==
    IF toks # <<>> THEN findByPath(raw, toks) ELSE [found |-> TRUE, value |-> raw, path |-> <<"$">>]

\* the Search button and Enter in the search box
OnSearch ==
    LET toks == parsePath(query) IN
    /\ IF Falsy(raw)
       THEN /\ status' = Status("No tree. Paste JSON and Generate first.")
            /\ UNCHANGED <<highlightId, graph>>
       ELSE IF toks = <<>> /\ Trim(query) # <<>>
       THEN /\ status' = Status("No match found")
            /\ UNCHANGED <<highlightId, graph>>
       ELSE IF ~searchResult(toks).found
       THEN /\ status' = Status("No match found")
            /\ highlightId' = NullId
            /\ UNCHANGED graph
       ELSE /\ status' = Status("Match found")
            /\ highlightId' = SomeId(searchResult(toks).path)
            /\ graph' = Rendered(raw, SomeId(searchResult(toks).path))
    /\ UNCHANGED <<jsonText, error, raw, query, debounceRef, treeVars, queryVars>>

\* the Clear button; the timer restarts only if the text changes
ClearAll ==
    /\ jsonText' = EmptyText
    /\ graph' = NoFlow
    /\ raw' = JNull
    /\ query' = <<>>
    /\ status' = NoStatus
    /\ error' = ""
    /\ highlightId' = NullId
    /\ debounceRef' = (IF jsonText # EmptyText THEN TRUE ELSE debounceRef)
    /\ UNCHANGED <<treeVars, queryVars>>

\* a click on a node of the graph
OnNodeClick ==
    \E i \in 1..Len(graph.nodes) :
        /\ status' = [text |-> "Copied path: ", arg |-> graph.nodes[i].id]
        /\ UNCHANGED <<jsonText, error, graph, raw, query, highlightId, debounceRef, treeVars, queryVars>>

Init == AppInit /\ TreeIdle /\ QueryIdle

Next == Generate \/ SetJsonText \/ DebounceFire \/ SetQuery \/ OnSearch \/ ClearAll \/ OnNodeClick

Spec == Init /\ [][Next]_vars

----------------------------------------------------------------------------
(* Properties of the App component *)

\* the positions in the rendered node list of the nodes that carry the highlight style
Highlighted(g) == {i \in 1..Len(g.nodes) : g.nodes[i].style.background = NODE_COLORS.highlight}

\* C1: after a successful search exactly one node of the rendered node list
\* is highlighted, and it is the node whose id is the resolver's canonical
\* path, for every document, single-key roots that buildTree collapses included.
C1_OneNodeHighlighted ==
    status = Status("Match found") =>
        /\ Cardinality(Highlighted(graph)) = 1
        /\ \A i \in Highlighted(graph) : SomeId(graph.nodes[i].id) = highlightId

\* a document has been built and is displayed
Displayed == graph.nodes # <<>>

\* C6: for every document that has been built, the query "$" and the empty
\* query resolve to the root: the search succeeds with the document as its
\* value and "$" as its canonical id.
C6_RootQueryResolves ==
    [][(OnSearch /\ Displayed /\ query \in {<<>>, <<"$">>}) =>
          /\ status' = Status("Match found")
          /\ highlightId' = SomeId(<<"$">>)
          /\ searchResult(parsePath(query)) = [found |-> TRUE, value |-> raw, path |-> <<"$">>]]_vars

\* the current query does not tokenize: parsePath gave up at a bracket
TokenizationFails ==
    /\ parsePath(query) = <<>>
    /\ \E i \in 1..Len(Stripped(query)) : Stripped(query)[i] = "["

\* the search of the current query fails: the query does not tokenize, or
\* its tokens do not resolve in the document
SearchFails ==
    /\ ~Falsy(raw)
    /\ \/ TokenizationFails
       \/ parsePath(query) # <<>> /\ ~findByPath(raw, parsePath(query)).found

\* the two graphs have the same nodes, labels, positions and edges
SameLayout(g, h) ==
    /\ g.edges = h.edges
    /\ Len(g.nodes) = Len(h.nodes)
    /\ \A i \in 1..Len(g.nodes) :
          /\ g.nodes[i].id = h.nodes[i].id
          /\ g.nodes[i].position = h.nodes[i].position
          /\ g.nodes[i].data = h.nodes[i].data

\* C8: a search that fails shows the not-found message and clears the
\* highlight: the highlight id is null and no node of the rendered graph
\* carries the highlight style, the graph being otherwise unchanged, whatever
\* generate and search actions came before.
C8_FailedSearchClearsHighlight ==
    [][(OnSearch /\ SearchFails) =>
          /\ status' = Status("No match found")
          /\ highlightId' = NullId
          /\ Highlighted(graph') = {}
          /\ SameLayout(graph, graph')]_vars

InvalidBuildDiscards ==
    /\ graph' = NoFlow
    /\ raw' = JNull
    /\ error' = "Invalid JSON"

\* C9 as claimed: a build attempted on text that is not valid JSON, by the
\* Generate action or by the debounced rebuild, empties the node and edge
\* lists, nulls the stored raw document and shows the invalid-input error.
C9_InvalidTextDiscardsGraph ==
    [][((Generate \/ DebounceFire) /\ ~Parses(jsonText)) => InvalidBuildDiscards]_vars

\* C9 as amended: the Generate action on text that is not valid JSON empties
\* the node and edge lists, nulls the stored raw document and shows the
\* invalid-input error; the debounced rebuild attempts no build on such
\* text and leaves the graph, the raw document, the error, the status and
\* the highlight as they were.
C9_GenerateDiscardsDebounceKeeps ==
    [][/\ (Generate /\ ~Parses(jsonText)) => InvalidBuildDiscards
       /\ (DebounceFire /\ ~Parses(jsonText)) => UNCHANGED <<graph, raw, error, status, highlightId>>]_vars

\* Generate has discarded a graph for malformed text, and the timer set by
\* the edit to that text has since fired
C9_Witness ==
    /\ jsonText = MalformedText
    /\ debounceRef = FALSE
    /\ error = "Invalid JSON"
    /\ graph = NoFlow
    /\ raw = JNull

----------------------------------------------------------------------------
(* Properties of the query engine *)

RECURSIVE PreconditionsHold(_, _)
\* every token left meets its precondition on the way down from cur: a
\* string token at a non-null, non-array object with that own key, an integer
\* token at an array with that index in bounds
PreconditionsHold(cur, toks) ==
    IF toks = <<>> THEN TRUE
    ELSE LET t == Head(toks) IN
         IF t.num
         THEN /\ cur.js = "array" /\ 0 <= t.n /\ t.n < Len(cur.vals)
              /\ PreconditionsHold(cur.vals[t.n + 1], Tail(toks))
         ELSE /\ cur.js = "object" /\ KeyNamed(cur, t.s) # 0
              /\ PreconditionsHold(cur.vals[KeyNamed(cur, t.s)], Tail(toks))

\* C7: findByPath resolves a string token only at a non-null, non-array
\* object that has it as its own key and an integer token only at an array
\* with that index in bounds; a token that violates its precondition makes
\* the whole resolution not-found.
C7_TokensMeetPreconditions ==
    qpc = "found" => (res.found => PreconditionsHold(data, tokens))

\* the contents of a bracket pair are a valid integer: they convert to one
\* and are neither empty nor all whitespace
ValidIntegerText(inside) == NumberToInt(inside).int /\ Trim(inside) # <<>>

\* the position after the bare run that starts at i: the next . or [, or the end
RunEnd(cs, i) ==
    LET stops == {j \in i..Len(cs) : cs[j] \in {".", "["}}
    IN  IF stops = {} THEN Len(cs) + 1 ELSE CHOOSE j \in stops : \A k \in stops : j <= k

RECURSIVE BracketFails(_, _)
\* from position i on there is a [ with no following ], or a bracket pair
\* whose contents are not a valid integer
BracketFails(cs, i) ==
    IF i > Len(cs) THEN FALSE
    ELSE IF cs[i] = "["
    THEN LET j == IndexOf(cs, "]", i) IN
         \/ j = 0
         \/ ~ValidIntegerText(SubSeq(cs, i + 1, j - 1))
         \/ BracketFails(cs, j + 1)
    ELSE BracketFails(cs, i + 1)

RECURSIVE RunsAndPairs(_, _)
\* one string token for each bare run and one integer token for each
\* bracket pair from position i on, left to right
RunsAndPairs(cs, i) ==
    IF i > Len(cs) THEN <<>>
    ELSE IF cs[i] = "." THEN RunsAndPairs(cs, i + 1)
    ELSE IF cs[i] = "["
    THEN LET j == IndexOf(cs, "]", i) IN
         <<NumTok(NumberToInt(SubSeq(cs, i + 1, j - 1)).n)>> \o RunsAndPairs(cs, j + 1)
    ELSE <<StrTok(SubSeq(cs, i, RunEnd(cs, i) - 1))>> \o RunsAndPairs(cs, RunEnd(cs, i))

\* C10: parsePath returns no tokens whenever the query has a [ with no
\* following ] or a bracket pair whose contents are not a valid integer
\* (empty and whitespace-only contents included); otherwise each bare run
\* up to the next . or [ is one key token and each bracket pair one index
\* token, left to right.
C10_ParseTokens ==
    qpc \in {"parsed", "found"} =>
        IF BracketFails(Stripped(q), 1) THEN tokens = <<>>
        ELSE tokens = RunsAndPairs(Stripped(q), 1)

----------------------------------------------------------------------------
(* Properties of the pipeline *)

RECURSIVE NodesOf(_)
RECURSIVE NodesOfAll(_)
\* the nodes of the subtrees of cs, each before its descendants
NodesOfAll(cs) == IF cs = <<>> THEN <<>> ELSE NodesOf(Head(cs)) \o NodesOfAll(Tail(cs))

\* the nodes of the subtree of n
NodesOf(n) == <<n>> \o NodesOfAll(n.children)

RECURSIVE CountSlots(_)
RECURSIVE CountSlotsAll(_)
CountSlotsAll(xs) == IF xs = <<>> THEN 0 ELSE CountSlots(Head(xs)) + CountSlotsAll(Tail(xs))

\* the number of object keys plus array elements reachable in x
CountSlots(x) == Len(x.vals) + CountSlotsAll(x.vals)

\* the root of x is collapsed away: x is an object with exactly one key
Collapsed(x) == x.js = "object" /\ Len(x.keys) = 1

Built == pc \in {"built", "widths", "laid", "mapped"}

Measured == pc \in {"widths", "laid", "mapped"}

LaidOut == pc \in {"laid", "mapped"}

\* C2: in the tree built from any value every node id is unique, and every
\* child's id is its parent's id extended by .key (object) or [index] (array).
C2_IdsUniqueAndExtend ==
    Built =>
        LET ns == NodesOf(tree) IN
        /\ \A i, j \in 1..Len(ns) : i # j => ns[i].id # ns[j].id
        /\ \A i \in 1..Len(ns) : \A k \in 1..Len(ns[i].children) :
              LET c == ns[i].children[k] IN
              \/ ns[i].type = "object" /\ c.id = ns[i].id \o <<".">> \o ns[i].value.keys[k]
              \/ ns[i].type = "array" /\ c.id = ns[i].id \o <<"[">> \o ToStr(k - 1) \o <<"]">>

\* C3: the pipeline emits as many nodes as the value has object keys plus
\* array elements, plus one if the root was not collapsed, and one edge fewer.
C3_NodeAndEdgeCount ==
    pc = "mapped" =>
        /\ Len(flow.nodes) = CountSlots(v) + (IF Collapsed(v) THEN 0 ELSE 1)
        /\ Len(flow.edges) = Len(flow.nodes) - 1

C3_Witness ==
    /\ pc = "mapped" /\ Collapsed(v) /\ Len(flow.nodes) >= 3
    /\ Len(flow.edges) = Len(flow.nodes) - 1

PrimitiveLeaf(n) == n.type = "primitive" /\ n.children = <<>>

\* C4 as claimed: width is 1 exactly for the primitive leaves, and the sum
\* of the children's widths for every other node.
C4_WidthOneIffPrimitiveLeaf ==
    Measured =>
        \A i \in 1..Len(NodesOf(tree)) :
            LET n == NodesOf(tree)[i] IN
            /\ (n.width = 1 <=> PrimitiveLeaf(n))
            /\ (~PrimitiveLeaf(n) => n.width = sumWidths(n.children))

\* C4 as amended: width is 1 for every node without children (a primitive
\* leaf, an empty object or an empty array), and the sum of the children's
\* widths, which is at least 1, for every node with children.
C4_WidthOfLeafAndSum ==
    Measured =>
        \A i \in 1..Len(NodesOf(tree)) :
            LET n == NodesOf(tree)[i] IN
            /\ (n.type = "primitive" => n.children = <<>>)
            /\ (n.children = <<>> => n.width = 1)
            /\ (n.children # <<>> => n.width = sumWidths(n.children) /\ n.width >= 1)

C4_Witness ==
    /\ pc = "widths" /\ tree.width = 3 /\ Len(tree.children) = 2
    /\ tree.children[1].width = 2
    /\ tree.children[2].type = "array" /\ tree.children[2].children = <<>>

SpanL(n) == n.position.x - (n.width * H_GAP) \div 2

SpanR(n) == SpanL(n) + n.width * H_GAP

RECURSIVE SpansPartition(_, _)
\* the subtree of n, n being at this depth: each node is at its depth's y,
\* and the spans of the children of a node partition its span in child order
SpansPartition(n, depth) ==
    LET cs == n.children IN
    /\ n.position.y = depth * V_GAP
    /\ SpanL(n) < SpanR(n)
    /\ cs # <<>> =>
          /\ SpanL(cs[1]) = SpanL(n)
          /\ \A i \in 1..(Len(cs) - 1) : SpanL(cs[i + 1]) = SpanR(cs[i])
          /\ SpanR(cs[Len(cs)]) = SpanR(n)
          /\ \A i, j \in 1..Len(cs) : i < j => SpanR(cs[i]) <= SpanL(cs[j])
    /\ \A i \in 1..Len(cs) : SpansPartition(cs[i], depth + 1)

\* C5: after layout every node's span [xStart, xStart + width * H_GAP) is
\* centred on its x at y = depth * V_GAP, the root's span starts at the
\* xStart of the call, and the spans of the children of a node that has
\* children are disjoint, contiguous and partition the node's span.
C5_SpansPartition == LaidOut => SpanL(tree) = 0 /\ SpansPartition(tree, 0)

C5_Witness ==
    /\ pc = "laid" /\ Len(tree.children) = 2
    /\ tree.children[1].width = 2 /\ Len(tree.children[1].children) = 2
    /\ tree.children[2].position.x = 2 * H_GAP + H_GAP \div 2

====
